---- MODULE Spec2Model ----
(***************************************************************************)
(* splunkbase_urls.py: get_splunkbase_app_info (two sequential HTTP GETs,   *)
(* JSON field extraction, URL interpolation) and                            *)
(* get_multiple_splunkbase_urls (loop over identifiers, comma join).        *)
(*                                                                         *)
(* A Python str is a sequence of text pieces; concatenation is \o.          *)
(* A Python value is a record tagged with its Python type.                  *)
(***************************************************************************)
EXTENDS Integers, Sequences, FiniteSets, TLC

VARIABLES
    app_ids,          \* argument of get_multiple_splunkbase_urls
    pc,               \* position of the single thread of control
    idx,              \* number of identifiers the for loop has taken
    urls,             \* local list `urls` of get_multiple_splunkbase_urls
    result,           \* value returned by get_multiple_splunkbase_urls
    app_id,           \* argument of the current get_splunkbase_app_info call
    app_response,     \* locals of get_splunkbase_app_info
    app_data,
    app_name,
    release_response,
    release_data,
    exc,              \* exception in flight
    ret,              \* tuple returned by the current get_splunkbase_app_info call
    out,              \* lines printed, each tagged with the call that printed it
    net,              \* GET requests issued, each tagged with the call that issued it
    calls             \* identifier and returned tuple of each completed call, in order

vars == <<app_ids, pc, idx, urls, result, app_id, app_response, app_data,
          app_name, release_response, release_data, exc, ret, out, net, calls>>

locals == <<app_response, app_data, app_name, release_response, release_data>>

(* ------------------------------ bounds -------------------------------- *)

MaxIds == 2

(* --------------------------- Python values ---------------------------- *)

None == [t |-> "NoneType"]
Str(s) == [t |-> "str", v |-> s]
PyInt(n) == [t |-> "int", v |-> n]
List(xs) == [t |-> "list", v |-> xs]
\* a dict is its sequence of <<key, value>> items, in insertion order
Dict(items) == [t |-> "dict", v |-> items]
\* a local that has not been assigned, a value that does not exist yet
Unbound == [t |-> "unbound"]
\* a response body that is not JSON text
NotJson == [t |-> "notjson"]

\* Python truth value of x
Truthy(x) ==
    CASE x.t = "NoneType" -> FALSE
      [] x.t = "int" -> x.v # 0
      [] x.t \in {"str", "list", "dict"} -> Len(x.v) > 0

HasKey(d, k) == \E i \in 1..Len(d.v) : d.v[i][1] = k

\* d[k] for a dict d that has key k
Item(d, k) == d.v[CHOOSE i \in 1..Len(d.v) : d.v[i][1] = k][2]

RECURSIVE Digits(_)
Digits(n) ==
    IF n < 10
    THEN << <<"0", "1", "2", "3", "4", "5", "6", "7", "8", "9">>[n + 1] >>
    ELSE Digits(n \div 10) \o Digits(n % 10)

\* the text an f-string puts for {x}: format(x, "") which is str(x)
Format(x) ==
    CASE x.t = "str" -> x.v
      [] x.t = "NoneType" -> <<"None">>
      [] x.t = "int" -> Digits(x.v)

(* ------------------------------- URLs --------------------------------- *)

AppUrl(id) == <<"https://splunkbase.splunk.com/api/v1/app/">> \o id

ReleaseUrl(id) ==
    <<"https://splunkbase.splunk.com/api/v1/app/">> \o id \o <<"/release">>

DownloadUrl(id, version) ==
    <<"https://splunkbase.splunk.com/app/">> \o id
        \o <<"/release/">> \o Format(version) \o <<"/download/">>

(* ---------------------------- diagnostics ----------------------------- *)

RequestErrorMessage_NoId(id, e) ==
    <<"Error fetching details for app ", ": ">> \o e.msg

RequestErrorMessage(id, e) ==
    <<"Error fetching details for app ">> \o id \o <<": ">> \o e.msg

StructureErrorMessage(id, e) ==
    <<"Unexpected response structure for app ">> \o id \o <<": ">> \o e.msg

UnexpectedMessage(id) ==
    <<"Error: Unexpected response structure for app ">> \o id

(* ----------------------------- exceptions ----------------------------- *)

NoExc == [type |-> "none", msg |-> <<>>]

Exc(type, msg) == [type |-> type, msg |-> msg]

\* the classes of requests.exceptions, all subclasses of RequestException
RequestExceptions ==
    {"ConnectionError", "Timeout", "HTTPError", "requests.JSONDecodeError"}

\* requests.get failing before any response exists
TransportErrors ==
    { Exc("ConnectionError", <<"Connection refused">>),
      Exc("Timeout", <<"Read timed out. (read timeout=10)">>) }

\* response.raise_for_status(): HTTPError for a 4xx or 5xx status
IsErrorStatus(status) == status >= 400 /\ status < 600

HttpError(status, url) ==
    Exc("HTTPError", Digits(status) \o <<" Error for url: ">> \o url)

\* response.json() on a body that is not JSON: requests >= 2.27 raises
\* requests.JSONDecodeError (a RequestException), older releases a ValueError
JsonErrors ==
    { Exc("requests.JSONDecodeError", <<"Expecting value">>),
      Exc("ValueError", <<"Expecting value">>) }

(* ---------------------- what the service may answer ------------------- *)

AppIds == { <<"4353">>, <<"833">> }

\* the body of a 404 or 500 answer is an error page, not JSON
ErrorStatuses == {404, 500}

AppBodies ==
    { Dict(<< <<"title", Str(<<"Splunk Add-on">>)>> >>),
      Dict(<< <<"uid", PyInt(7)>> >>),
      Dict(<< <<"title", None>> >>),
      List(<< >>),
      Str(<<"ok">>),
      None,
      NotJson }

ReleaseBodies ==
    { List(<< Dict(<< <<"name", Str(<<"2.0">>)>> >>),
              Dict(<< <<"name", Str(<<"1.0">>)>> >>) >>),
      List(<< Dict(<< <<"name", Str(<<"1.0">>)>> >>) >>),
      List(<< Dict(<< <<"name", None>> >>) >>),
      List(<< Dict(<< <<"name", PyInt(3)>> >>) >>),
      List(<< Dict(<< <<"id", PyInt(3)>> >>) >>),
      List(<< Str(<<"1.0">>) >>),
      List(<< None >>),
      List(<< >>),
      Dict(<< >>),
      Dict(<< <<"name", Str(<<"1.0">>)>> >>),
      Str(<<"1.0">>),
      PyInt(0),
      PyInt(5),
      None,
      NotJson }

Response(status, body) == [status |-> status, body |-> body]

AppResponses ==
    { Response(200, b) : b \in AppBodies }
        \cup { Response(s, NotJson) : s \in ErrorStatuses }

ReleaseResponses ==
    { Response(200, b) : b \in ReleaseBodies }
        \cup { Response(s, NotJson) : s \in ErrorStatuses }

RECURSIVE SeqsUpTo(_, _)
SeqsUpTo(S, n) ==
    IF n = 0 THEN { << >> }
    ELSE LET shorter == SeqsUpTo(S, n - 1)
         IN shorter \cup { Append(s, x) : s \in shorter, x \in S }

(* ------------------------------- Init --------------------------------- *)

Init ==
    /\ app_ids \in SeqsUpTo(AppIds, MaxIds)
    /\ pc = "for"
    /\ idx = 0
    /\ urls = << >>
    /\ result = Unbound
    /\ app_id = << >>
    /\ app_response = Unbound
    /\ app_data = Unbound
    /\ app_name = Unbound
    /\ release_response = Unbound
    /\ release_data = Unbound
    /\ exc = NoExc
    /\ ret = << >>
    /\ out = << >>
    /\ net = << >>
    /\ calls = << >>

(* -------------------- get_splunkbase_app_info ------------------------- *)

Raise(e) == exc' = e /\ pc' = "except"

Request(url) == net' = Append(net, [call |-> idx, url |-> url])

\* print(text)
Say(text) == out' = Append(out, [call |-> idx, text |-> text])

\* the URLs requested by the k-th call of get_splunkbase_app_info, in order
CallReqs(k) ==
    LET mine == SelectSeq(net, LAMBDA r : r.call = k)
    IN [i \in 1..Len(mine) |-> mine[i].url]

\* line 29: app_response = requests.get(app_url, timeout=10)
AppGet ==
    /\ pc = "app_get"
    /\ Request(AppUrl(app_id))
    /\ \/ \E e \in TransportErrors :
             /\ Raise(e)
             /\ UNCHANGED app_response
       \/ \E r \in AppResponses :
             /\ app_response' = r
             /\ pc' = "app_raise_for_status"
             /\ UNCHANGED exc
    /\ UNCHANGED <<app_ids, idx, urls, result, app_id, app_data, app_name,
                   release_response, release_data, ret, out, calls>>

\* line 30: app_response.raise_for_status()
AppRaiseForStatus ==
    /\ pc = "app_raise_for_status"
    /\ IF IsErrorStatus(app_response.status)
       THEN Raise(HttpError(app_response.status, AppUrl(app_id)))
       ELSE pc' = "app_json" /\ UNCHANGED exc
    /\ UNCHANGED <<app_ids, idx, urls, result, app_id, locals, ret, out, net, calls>>

\* line 31: app_data = app_response.json()
AppJson ==
    /\ pc = "app_json"
    /\ IF app_response.body = NotJson
       THEN /\ \E e \in JsonErrors : Raise(e)
            /\ UNCHANGED app_data
       ELSE /\ app_data' = app_response.body
            /\ pc' = "app_title"
            /\ UNCHANGED exc
    /\ UNCHANGED <<app_ids, idx, urls, result, app_id, app_response, app_name,
                   release_response, release_data, ret, out, net, calls>>

\* dict.get(key, default)
Get(d, k, default) == IF HasKey(d, k) THEN Item(d, k) ELSE default

\* line 32: app_name = app_data.get("title", "Unknown")
AppTitle ==
    /\ pc = "app_title"
    /\ IF app_data.t = "dict"
       THEN /\ app_name' = Get(app_data, "title", Str(<<"Unknown">>))
            /\ pc' = "release_get"
            /\ UNCHANGED exc
       ELSE /\ Raise(Exc("AttributeError",
                         <<"'", app_data.t, "' object has no attribute 'get'">>))
            /\ UNCHANGED app_name
    /\ UNCHANGED <<app_ids, idx, urls, result, app_id, app_response, app_data,
                   release_response, release_data, ret, out, net, calls>>

\* line 35: release_response = requests.get(release_url, timeout=10)
ReleaseGet ==
    /\ pc = "release_get"
    /\ Request(ReleaseUrl(app_id))
    /\ \/ \E e \in TransportErrors :
             /\ Raise(e)
             /\ UNCHANGED release_response
       \/ \E r \in ReleaseResponses :
             /\ release_response' = r
             /\ pc' = "release_raise_for_status"
             /\ UNCHANGED exc
    /\ UNCHANGED <<app_ids, idx, urls, result, app_id, app_response, app_data,
                   app_name, release_data, ret, out, calls>>

\* line 36: release_response.raise_for_status()
ReleaseRaiseForStatus ==
    /\ pc = "release_raise_for_status"
    /\ IF IsErrorStatus(release_response.status)
       THEN Raise(HttpError(release_response.status, ReleaseUrl(app_id)))
       ELSE pc' = "release_json" /\ UNCHANGED exc
    /\ UNCHANGED <<app_ids, idx, urls, result, app_id, locals, ret, out, net, calls>>

\* line 37: release_data = release_response.json()
ReleaseJson ==
    /\ pc = "release_json"
    /\ IF release_response.body = NotJson
       THEN /\ \E e \in JsonErrors : Raise(e)
            /\ UNCHANGED release_data
       ELSE /\ release_data' = release_response.body
            /\ pc' = "release_check"
            /\ UNCHANGED exc
    /\ UNCHANGED <<app_ids, idx, urls, result, app_id, app_response, app_data,
                   app_name, release_response, ret, out, net, calls>>

IsNonEmptyList_NoLength(x) == x.t = "list"

\* line 39: release_data and isinstance(release_data, list) and len(release_data) > 0
IsNonEmptyList(x) == Truthy(x) /\ x.t = "list" /\ Len(x.v) > 0

Latest_Last(xs) == xs.v[Len(xs.v)]

\* line 40: release_data[0]
Latest(xs) == xs.v[1]

\* return from get_splunkbase_app_info to line 67
Return(tuple) ==
    /\ ret' = tuple
    /\ calls' = Append(calls, [id |-> app_id, ret |-> tuple])
    /\ pc' = "returned"

\* lines 39-42: the branch taken for a non-empty list
ReleaseFound ==
    /\ pc = "release_check"
    /\ IsNonEmptyList(release_data)
    /\ IF release_data = List(<< >>)
       THEN /\ Raise(Exc("IndexError", <<"list index out of range">>))
            /\ UNCHANGED <<ret, calls>>
       ELSE LET first == Latest(release_data) IN
            IF first.t # "dict"
            THEN /\ Raise(Exc("TypeError",
                              <<"'", first.t, "' object is not subscriptable by str">>))
                 /\ UNCHANGED <<ret, calls>>
            ELSE IF ~HasKey(first, "name")
            THEN /\ Raise(Exc("KeyError", <<"'name'">>))
                 /\ UNCHANGED <<ret, calls>>
            ELSE LET version == Item(first, "name") IN
                 /\ Return(<<app_name, version, Str(DownloadUrl(app_id, version))>>)
                 /\ UNCHANGED exc
    /\ UNCHANGED <<app_ids, idx, urls, result, app_id, locals, out, net>>

\* lines 43-45: the else branch
ReleaseUnexpected ==
    /\ pc = "release_check"
    /\ ~IsNonEmptyList(release_data)
    /\ Say(UnexpectedMessage(app_id))
    /\ Return(<<app_name, None, None>>)
    /\ UNCHANGED <<app_ids, idx, urls, result, app_id, locals, exc, net>>

ExceptRequestException_KeepName ==
    /\ pc = "except"
    /\ exc.type \in RequestExceptions
    /\ Say(RequestErrorMessage(app_id, exc))
    /\ Return(<<IF app_name = Unbound THEN None ELSE app_name, None, None>>)
    /\ exc' = NoExc
    /\ UNCHANGED <<app_ids, idx, urls, result, app_id, locals, net>>

ExceptRequestException_Retry ==
    /\ pc = "except"
    /\ exc.type \in RequestExceptions
    /\ Say(RequestErrorMessage(app_id, exc))
    /\ IF Len(CallReqs(idx)) < 3
       THEN pc' = "app_get" /\ UNCHANGED <<ret, calls>>
       ELSE Return(<<None, None, None>>)
    /\ exc' = NoExc
    /\ UNCHANGED <<app_ids, idx, urls, result, app_id, locals, net>>

\* lines 47-49: except requests.RequestException as e
ExceptRequestException ==
    /\ pc = "except"
    /\ exc.type \in RequestExceptions
    /\ Say(RequestErrorMessage(app_id, exc))
    /\ Return(<<None, None, None>>)
    /\ exc' = NoExc
    /\ UNCHANGED <<app_ids, idx, urls, result, app_id, locals, net>>

\* lines 50-52: except (KeyError, IndexError) as e
ExceptKeyIndexError ==
    /\ pc = "except"
    /\ exc.type \in {"KeyError", "IndexError"}
    /\ Say(StructureErrorMessage(app_id, exc))
    /\ Return(<<None, None, None>>)
    /\ exc' = NoExc
    /\ UNCHANGED <<app_ids, idx, urls, result, app_id, locals, net>>

\* no except clause matches: the exception leaves get_splunkbase_app_info, and
\* line 67 has no try around the call, so it leaves get_multiple_splunkbase_urls
Propagate ==
    /\ pc = "except"
    /\ exc.type \notin RequestExceptions \cup {"KeyError", "IndexError"}
    /\ pc' = "raised"
    /\ UNCHANGED <<app_ids, idx, urls, result, app_id, locals, exc, ret, out,
                   net, calls>>

(* ------------------- get_multiple_splunkbase_urls --------------------- *)

\* lines 66-67 and 24-25: the loop takes the next identifier and calls
ForNext ==
    /\ pc = "for"
    /\ idx < Len(app_ids)
    /\ idx' = idx + 1
    /\ app_id' = app_ids[idx + 1]
    /\ app_response' = Unbound
    /\ app_data' = Unbound
    /\ app_name' = Unbound
    /\ release_response' = Unbound
    /\ release_data' = Unbound
    /\ ret' = << >>
    /\ pc' = "app_get"
    /\ UNCHANGED <<app_ids, urls, result, exc, out, net, calls>>

\* lines 67-69: _, _, url = ...; if url: urls.append(url)
Collect ==
    /\ pc = "returned"
    /\ urls' = IF Truthy(ret[3]) THEN Append(urls, ret[3]) ELSE urls
    /\ pc' = "for"
    /\ UNCHANGED <<app_ids, idx, result, app_id, locals, exc, ret, out, net, calls>>

RECURSIVE Join_Reversed(_, _)
Join_Reversed(sep, xs) ==
    IF Len(xs) = 0 THEN << >>
    ELSE IF Len(xs) = 1 THEN xs[1].v
    ELSE Join_Reversed(sep, Tail(xs)) \o sep \o xs[1].v

\* sep.join(xs) for a list xs of str
RECURSIVE Join(_, _)
Join(sep, xs) ==
    IF Len(xs) = 0 THEN << >>
    ELSE IF Len(xs) = 1 THEN xs[1].v
    ELSE xs[1].v \o sep \o Join(sep, Tail(xs))

\* line 71: return ",".join(urls)
MultiReturn ==
    /\ pc = "for"
    /\ idx = Len(app_ids)
    /\ result' = Str(Join(<<",">>, urls))
    /\ pc' = "done"
    /\ UNCHANGED <<app_ids, idx, urls, app_id, locals, exc, ret, out, net, calls>>

Next ==
    \/ ForNext
    \/ AppGet
    \/ AppRaiseForStatus
    \/ AppJson
    \/ AppTitle
    \/ ReleaseGet
    \/ ReleaseRaiseForStatus
    \/ ReleaseJson
    \/ ReleaseFound
    \/ ReleaseUnexpected
    \/ ExceptRequestException
    \/ ExceptKeyIndexError
    \/ Propagate
    \/ Collect
    \/ MultiReturn

Spec == Init /\ [][Next]_vars

(* ======================= properties of the code ======================= *)

NNN == <<None, None, None>>

\* the current call of get_splunkbase_app_info has ended: it returned or it raised
CallEnded == pc \in {"returned", "raised"}

\* text `piece` occurs in text `text`
Contains(text, piece) ==
    \E i \in 1..(Len(text) - Len(piece) + 1) :
        SubSeq(text, i, i + Len(piece) - 1) = piece

\* the current call printed a line that holds its identifier
SaidWithId ==
    \E i \in 1..Len(out) : out[i].call = idx /\ Contains(out[i].text, app_id)

\* the request got no answer, or an answer with a 4xx/5xx status
Failed(response) == response = Unbound \/ response.status \in ErrorStatuses

AppRequested == Len(CallReqs(idx)) >= 1
ReleaseRequested == Len(CallReqs(idx)) >= 2

\* the app answer is 200 with an object body
AppIsObject ==
    /\ app_response # Unbound
    /\ app_response.status = 200
    /\ app_response.body.t = "dict"

\* the title the claims speak of: the `title` item, "Unknown" without one
TitleOrUnknown ==
    LET items == app_response.body.v
        at == { i \in 1..Len(items) : items[i][1] = "title" }
    IN IF at = {} THEN Str(<<"Unknown">>) ELSE items[CHOOSE i \in at : TRUE][2]

\* app body is an object with a string `title`
WellFormedApp == AppIsObject /\ TitleOrUnknown.t = "str" /\ HasKey(app_response.body, "title")

\* release body is a non-empty array whose element 0 has a string `name`
WellFormedRelease ==
    /\ release_response # Unbound
    /\ release_response.status = 200
    /\ release_response.body.t = "list"
    /\ Len(release_response.body.v) > 0
    /\ release_response.body.v[1].t = "dict"
    /\ \E i \in 1..Len(release_response.body.v[1].v) :
          /\ release_response.body.v[1].v[i][1] = "name"
          /\ release_response.body.v[1].v[i][2].t = "str"

Element0Name ==
    LET items == release_response.body.v[1].v
    IN items[CHOOSE i \in 1..Len(items) : items[i][1] = "name"][2]

\* https://splunkbase.splunk.com/app/{app_id}/release/{version}/download/
ExpectedUrl(id, text) ==
    <<"https://splunkbase.splunk.com/app/">> \o id \o <<"/release/">>
        \o text \o <<"/download/">>

\* C1: when both endpoints answer with well-formed success payloads, the call
\* returns (title, element 0's name, the download URL of app_id and that name),
\* all three present, and raises nothing.
C1_WellFormedGivesFullTuple ==
    (WellFormedApp /\ WellFormedRelease /\ pc \in {"except", "returned", "raised"})
        => /\ pc = "returned"
           /\ ret = << TitleOrUnknown, Element0Name,
                       Str(ExpectedUrl(app_id, Element0Name.v)) >>
           /\ \A i \in 1..3 : ret[i] # None

C1_Witness ==
    /\ pc = "returned"
    /\ WellFormedApp
    /\ WellFormedRelease
    /\ Len(release_response.body.v) = 2
    /\ ret[2] = Str(<<"2.0">>)

\* the URLs of the first n completed calls that are present, comma-joined
RECURSIVE PresentUrlsJoined(_)
PresentUrlsJoined(n) ==
    IF n = 0 THEN << >>
    ELSE LET before == PresentUrlsJoined(n - 1)
             url == calls[n].ret[3]
         IN IF url = None THEN before
            ELSE IF before = << >> THEN url.v
            ELSE before \o <<",">> \o url.v

\* C2: the string get_multiple_splunkbase_urls returns is the comma-join, in
\* input order, of the URLs of exactly the identifiers whose lookup gave a
\* present URL; with no present URL it is the empty string.
C2_JoinOfPresentUrls ==
    (pc = "done")
        => /\ Len(calls) = Len(app_ids)
           /\ \A k \in 1..Len(app_ids) : calls[k].id = app_ids[k]
           /\ result = Str(PresentUrlsJoined(Len(app_ids)))
           /\ ((\A k \in 1..Len(calls) : calls[k].ret[3] = None) => result = Str(<< >>))

C2_Witness ==
    /\ pc = "done"
    /\ Len(app_ids) = 2
    /\ calls[1].ret[3] = None
    /\ calls[2].ret[3] # None
    /\ result = calls[2].ret[3]

\* every body the current call parsed was JSON
BodiesParsedAreJson ==
    /\ (app_response # Unbound => app_response.body # NotJson \/ app_response.status # 200)
    /\ (release_response # Unbound =>
            release_response.body # NotJson \/ release_response.status # 200)

\* C3: whatever the two requests give (no answer, an error status, a success
\* body of any JSON shape), no exception leaves get_splunkbase_app_info.
C3_NoExceptionEscapes ==
    BodiesParsedAreJson => pc # "raised"

\* C4: a lookup that fails never aborts a run over several identifiers: when
\* the run is over, every identifier of the input has been looked up, in input
\* order, and a string has been returned.
C4_FailureNeverAborts ==
    (BodiesParsedAreJson /\ Len(app_ids) >= 2 /\ ~ENABLED Next)
        => /\ result.t = "str"
           /\ idx = Len(app_ids)
           /\ \A k \in 1..Len(app_ids) :
                 Len(CallReqs(k)) >= 1 /\ CallReqs(k)[1] = AppUrl(app_ids[k])

\* the app request succeeded and the name was extracted; the release request
\* was issued and failed
ReleaseRequestFailed ==
    /\ pc = "returned"
    /\ app_name # Unbound
    /\ ReleaseRequested
    /\ Failed(release_response)

\* C5 as stated: after a failed release request the call returns
\* (name, absent, absent) with the name of the first call.
C5_NamePreserved ==
    ReleaseRequestFailed => ret = <<app_name, None, None>>

\* C5 as amended: after a failed release request the call returns
\* (absent, absent, absent); the name of the first call is not kept.
C5_AllAbsentAfterReleaseFailure ==
    (app_name # Unbound /\ ReleaseRequested /\ Failed(release_response) /\ CallEnded)
        => pc = "returned" /\ ret = NNN

C5_Witness ==
    /\ ReleaseRequestFailed
    /\ app_name = Str(<<"Splunk Add-on">>)
    /\ release_response # Unbound
    /\ release_response.status = 500

\* C6: when the app request fails the call returns (absent, absent, absent),
\* having printed a line that holds the identifier.
C6_AppFailureAllAbsent ==
    (AppRequested /\ Failed(app_response) /\ CallEnded)
        => pc = "returned" /\ ret = NNN /\ SaidWithId

C6_Witness ==
    /\ pc = "returned"
    /\ app_response = Unbound
    /\ Len(out) > 0
    /\ out[Len(out)].call = idx

\* both requests succeeded, the app body is an object and the release body is
\* JSON that is an empty array or no array
ReleaseEmptyOrNoList ==
    /\ AppIsObject
    /\ release_response # Unbound
    /\ release_response.status = 200
    /\ release_response.body.t \in {"list", "dict", "str", "int", "NoneType"}
    /\ release_response.body.t = "list" => release_response.body.v = << >>

C8_UrlOnlyWithVersion ==
    (pc = "returned" /\ ret[3] # None)
        => /\ ret[2] # None
           /\ (ret[2].t = "str" => ret[3] = Str(ExpectedUrl(app_id, ret[2].v)))

\* C9: every returned tuple is all present or all absent.
C9_AllOrNothing ==
    (pc = "returned")
        => \/ ret = NNN
           \/ \A i \in 1..3 : ret[i] # None

\* C10: a call issues the app request once and first, the release request at
\* most once and only after the app answer was accepted and parsed, nothing
\* after a failure; it ends after one request with a failure, or after two with
\* a failure or with the full result.
C10_LinearNoRetry ==
    /\ \A k \in 1..idx :
          /\ CallReqs(k) \in { << >>, <<AppUrl(app_ids[k])>>,
                               <<AppUrl(app_ids[k]), ReleaseUrl(app_ids[k])>> }
          /\ (k < idx \/ pc # "app_get") => Len(CallReqs(k)) >= 1
    /\ (idx >= 1 /\ ReleaseRequested)
          => /\ app_response # Unbound
             /\ app_response.status = 200
             /\ app_data = app_response.body
             /\ app_name # Unbound
    /\ (pc = "returned" /\ ret[3] # None) => ReleaseRequested
    /\ (CallEnded /\ ~ReleaseRequested) => (pc = "raised" \/ ret = NNN)

C10_Witness ==
    /\ pc = "returned"
    /\ idx = 2
    /\ Len(CallReqs(1)) = 1
    /\ Len(CallReqs(2)) = 2
    /\ ret[3] # None

====
